---- MODULE Spec2Model ----
(***************************************************************************)
(* A model of the two report scripts of rh-lightspeed-reports:             *)
(*   src/patch_system_status.py  (prog = "status": PDF report by OS group) *)
(*   src/redhat_patch_api.py     (prog = "api": JSON advisory report)      *)
(* Both hold a RedHatPatchAPI object (access_token), talk to three HTTP    *)
(* endpoints through blocking calls, and then reshape what they fetched.   *)
(* The remote service is the environment: every HTTP call draws its        *)
(* response from a bounded set.                                            *)
(***************************************************************************)
EXTENDS Integers, Sequences, FiniteSets

VARIABLES
  prog,          \* which script runs: "status" or "api"
  pc,            \* position of the script: auth, list, loop, report, json, done, exit
  exit_code,     \* -1 while running, then the process's exit status
  access_token,  \* RedHatPatchAPI.access_token
  http,          \* every HTTP request issued so far, with the response it got
  returned,      \* the last API method called and what it returned
  ncalls,        \* number of API method calls made by the object-level driver
  systems,       \* main's local: the inventory returned by get_patch_systems
  idx,           \* position of the for loop over systems (next entry)
  os_groups,     \* get_system_status_data's os_groups (dict: os_version -> list)
  systems_with_advisories, \* redhat_patch_api.main's result list
  console,       \* the messages printed that the claims speak about
  written,       \* report files written: subset of {"pdf", "json"}
  summary,       \* per-group statistics of main's console summary
  pdf_stats,     \* statistics generate_pdf_report put in the document
  json_report    \* the dict generate_json_report dumped

vars == <<prog, pc, exit_code, access_token, http, returned, ncalls, systems, idx,
          os_groups, systems_with_advisories, console, written, summary, pdf_stats,
          json_report>>

----------------------------------------------------------------------------
(* Bounds of the model. *)

MaxSystems == 2      \* longest inventory the service returns
MaxAdvisories == 2   \* longest advisory list the service returns
MaxCalls == 3        \* method calls made by the object-level driver
MaxGroupLen == 2     \* longest group handed to generate_pdf_report directly

----------------------------------------------------------------------------
(* Python values. *)

None == "<None>"         \* Python's None, where a string is expected
Missing == "<missing>"   \* a key that a JSON object does not have

\* dict.get(key, default)
DictGet(v, default) == IF v = Missing THEN default ELSE v

\* Python truthiness of a token value: None and "" are falsy.
Truthy(t) == t # None /\ t # ""

Programs == {"status", "api"}
Tokens == {"tok1", "tok2"}

----------------------------------------------------------------------------
(* The remote service: what a response can be. *)

\* The n-th advisory the service lists for a system; the second one lacks
\* both id and attributes.synopsis.
RawAdvisory(n) ==
  CASE n = 1 -> [id |-> "RHSA-1", synopsis |-> "kernel update"]
    [] n = 2 -> [id |-> Missing, synopsis |-> Missing]
    [] OTHER -> [id |-> "RHBA-3", synopsis |-> Missing]

RawAdvisoryList(n) == [k \in 1..n |-> RawAdvisory(k)]

\* Inventory entries: id, attributes.display_name, attributes.os, any of
\* which may be missing.
Entries ==
  { [id |-> "a", display_name |-> "Host1", os |-> "RHEL 8"],
    [id |-> "b", display_name |-> "Host1", os |-> "rhel 8"],
    [id |-> Missing, display_name |-> Missing, os |-> Missing],
    [id |-> "a", display_name |-> "Host2", os |-> "Unknown OS"] }

SeqsUpTo(S, n) == UNION { [1..k -> S] : k \in 0..n }

Inventories == SeqsUpTo(Entries, MaxSystems)

Response(status, token, has_data, data) ==
  [status |-> status, access_token |-> token, has_data |-> has_data, data |-> data]

\* requests raises a RequestException: ConnectionError/Timeout ("transport")
\* or, from raise_for_status, HTTPError ("http_error").
TransportError == Response("transport", Missing, FALSE, <<>>)
HttpError == Response("http_error", Missing, FALSE, <<>>)
Failed(resp) == resp.status # "ok"

TokenResponses ==
  {TransportError, HttpError}
    \cup { Response("ok", t, FALSE, <<>>) : t \in Tokens \cup {"", Missing} }

InventoryResponses ==
  {TransportError, HttpError, Response("ok", Missing, FALSE, <<>>)}
    \cup { Response("ok", Missing, TRUE, inv) : inv \in Inventories }

\* An error status may come with a body; raise_for_status discards it.
AdvisoryResponses ==
  {TransportError, HttpError, Response("ok", Missing, FALSE, <<>>),
   Response("http_error", Missing, TRUE, RawAdvisoryList(1))}
    \cup { Response("ok", Missing, TRUE, RawAdvisoryList(n)) : n \in 0..MaxAdvisories }

Request(kind, id, bearer, resp) ==
  [kind |-> kind, id |-> id, bearer |-> bearer, resp |-> resp]

Returned(op, token, list) == [op |-> op, token |-> token, list |-> list]

----------------------------------------------------------------------------
(* class RedHatPatchAPI. Each method is one blocking call: the request and *)
(* the response `resp` the service gives it belong to the same step.       *)

\* get_oauth_token's assignment to self.access_token: inside the try, after
\* raise_for_status; the except branch assigns nothing.
TokenAfterRefresh(held, resp) ==
  IF Failed(resp) THEN held ELSE DictGet(resp.access_token, None)

\* get_oauth_token's return value: self.access_token as just assigned, or
\* None from the except branch.
TokenReturned(held, resp) ==
  IF Failed(resp) THEN None ELSE TokenAfterRefresh(held, resp)

get_oauth_token(resp) ==
  /\ http' = Append(http, Request("token", None, None, resp))
  /\ access_token' = TokenAfterRefresh(access_token, resp)
  /\ returned' = Returned("get_oauth_token", TokenReturned(access_token, resp), <<>>)

\* A fetch method without its token guard.
NoAccessToken_never(t) == FALSE

\* `if not self.access_token:` at the head of both fetch methods.
NoAccessToken(t) == ~Truthy(t)

\* A fetch method that reads the body without raise_for_status.
DataOf_ignoring_status(resp) == IF resp.has_data THEN resp.data ELSE <<>>

\* response.json().get('data', []) after raise_for_status, [] on an exception.
DataOf(resp) ==
  IF Failed(resp) THEN <<>> ELSE IF resp.has_data THEN resp.data ELSE <<>>

get_patch_systems(resp) ==
  /\ access_token' = access_token
  /\ IF NoAccessToken(access_token)
       THEN /\ http' = http
            /\ returned' = Returned("get_patch_systems", None, <<>>)
       ELSE /\ http' = Append(http, Request("systems", None, access_token, resp))
            /\ returned' = Returned("get_patch_systems", None, DataOf(resp))

\* redhat_patch_api.py rebuilds each advisory as {id, synopsis} with defaults.
AdvisoryInfo(advisory) ==
  [id |-> DictGet(advisory.id, "Unknown"),
   synopsis |-> DictGet(advisory.synopsis, "No synopsis")]

AdvisoryList(p, resp) ==
  IF p = "status"
    THEN DataOf(resp)
    ELSE [k \in 1..Len(DataOf(resp)) |-> AdvisoryInfo(DataOf(resp)[k])]

get_system_advisories(inventory_id, resp) ==
  /\ access_token' = access_token
  /\ IF NoAccessToken(access_token)
       THEN /\ http' = http
            /\ returned' = Returned("get_system_advisories", None, <<>>)
       ELSE /\ http' = Append(http, Request("advisories", inventory_id, access_token, resp))
            /\ returned' = Returned("get_system_advisories", None, AdvisoryList(prog, resp))

----------------------------------------------------------------------------
(* Reshaping: the records both scripts build from an inventory entry.      *)

\* display_name = attributes.get('display_name', 'Unknown')
DisplayName(system) == DictGet(system.display_name, "Unknown")

\* A loop that asks for advisories by display name.
SystemId_from_name(system) == DictGet(system.display_name, "Unknown")

\* system_id = system.get('id', 'No ID')
SystemId(system) == DictGet(system.id, "No ID")

\* str.lower() on the strings of the model.
Lower(str) ==
  CASE str = "RHEL 8" -> "rhel 8"
    [] str = "Unknown OS" -> "unknown os"
    [] OTHER -> str

\* A grouping key that folds case.
OsVersion_casefold(system) == Lower(DictGet(system.os, "Unknown OS"))

\* os_version = attributes.get('os', 'Unknown OS')
OsVersion(system) == DictGet(system.os, "Unknown OS")

\* A record whose flag is computed with >= instead of >.
SystemData_flag_always(system, advisories) ==
  [system_id |-> SystemId(system),
   display_name |-> DisplayName(system),
   os_version |-> OsVersion(system),
   has_installable_advisories |-> Len(advisories) >= 0,
   advisory_count |-> Len(advisories)]

\* patch_system_status.py: system_data
SystemData(system, advisories) ==
  [system_id |-> SystemId(system),
   display_name |-> DisplayName(system),
   os_version |-> OsVersion(system),
   has_installable_advisories |-> Len(advisories) > 0,
   advisory_count |-> Len(advisories)]

\* redhat_patch_api.py: system_data
SystemAdvisories(system, advisories) ==
  [system_id |-> SystemId(system),
   display_name |-> DisplayName(system),
   advisories |-> advisories]

EmptyDict == <<>>

\* A grouping that assigns the list instead of appending to it.
GroupAppend_overwrite(groups, key, rec) ==
  [k \in DOMAIN groups \cup {key} |-> IF k = key THEN <<rec>> ELSE groups[k]]

\* os_groups[os_version].append(system_data) on a defaultdict(list)
GroupAppend(groups, key, rec) ==
  [k \in DOMAIN groups \cup {key} |->
     IF k = key
       THEN IF key \in DOMAIN groups THEN Append(groups[key], rec) ELSE <<rec>>
       ELSE groups[k]]

----------------------------------------------------------------------------
(* Statistics of patch_system_status.py. A percentage is the exact         *)
(* fraction num/den of the float the code computes.                        *)

RECURSIVE SumOver(_, _)
\* sum(f(k) for k in keys)
SumOver(f, keys) ==
  IF keys = {} THEN 0
  ELSE LET k == CHOOSE x \in keys : TRUE IN f[k] + SumOver(f, keys \ {k})

RECURSIVE CountWith(_)
\* sum(1 for system in systems if system['has_installable_advisories'])
CountWith(group) ==
  IF group = <<>> THEN 0
  ELSE (IF Head(group).has_installable_advisories THEN 1 ELSE 0) + CountWith(Tail(group))

\* A percentage without its guard against an empty total.
Percentage_unguarded(with, total) == [num |-> with * 100, den |-> total]

\* (with / total * 100) if total > 0 else 0
Percentage(with, total) ==
  IF total > 0 THEN [num |-> with * 100, den |-> total] ELSE [num |-> 0, den |-> 1]

\* total_in_group, with_advisories, percentage of one group
GroupStats(group) ==
  [total_in_group |-> Len(group),
   with_advisories |-> CountWith(group),
   percentage |-> Percentage(CountWith(group), Len(group))]

GroupSummary(data) == [k \in DOMAIN data |-> GroupStats(data[k])]

TotalSystems(data) == SumOver([k \in DOMAIN data |-> Len(data[k])], DOMAIN data)

TotalWithAdvisories(data) ==
  SumOver([k \in DOMAIN data |-> CountWith(data[k])], DOMAIN data)

PdfStats(data) ==
  [total_systems |-> TotalSystems(data),
   total_with_advisories |-> TotalWithAdvisories(data),
   overall_percentage |-> Percentage(TotalWithAdvisories(data), TotalSystems(data)),
   groups |-> GroupSummary(data)]

\* generate_pdf_report: the statistics go into the story, then doc.build
\* writes the file or raises (build_ok = FALSE) and None is returned.
generate_pdf_report(data, build_ok) ==
  /\ pdf_stats' = <<PdfStats(data)>>
  /\ written' = IF build_ok THEN written \cup {"pdf"} ELSE written
  /\ console' = console \cup
       {IF build_ok THEN "PDF report generated successfully"
                    ELSE "Error generating PDF report"}

----------------------------------------------------------------------------
(* The JSON report of redhat_patch_api.py.                                 *)

JsonAdvisory(advisory) ==
  [advisory_id |-> advisory.id, synopsis |-> advisory.synopsis]

JsonEntry(system) ==
  [system_id |-> system.system_id,
   advisory_count |-> Len(system.advisories),
   advisories |-> [k \in 1..Len(system.advisories) |-> JsonAdvisory(system.advisories[k])]]

\* An assignment that keeps the entry a key already has.
DictSet_keep_first(dict, key, value) ==
  [k \in DOMAIN dict \cup {key} |-> IF k \in DOMAIN dict THEN dict[k] ELSE value]

\* json_report[system_name] = {...}
DictSet(dict, key, value) ==
  [k \in DOMAIN dict \cup {key} |-> IF k = key THEN value ELSE dict[k]]

RECURSIVE JsonReportUpTo(_, _)
\* json_report after the first n systems of the loop
JsonReportUpTo(data, n) ==
  IF n = 0 THEN EmptyDict
  ELSE DictSet(JsonReportUpTo(data, n - 1), data[n].display_name, JsonEntry(data[n]))

JsonReport(data) == JsonReportUpTo(data, Len(data))

\* generate_json_report: build the dict, then open and json.dump, which
\* writes the file or raises (write_ok = FALSE) and None is returned.
generate_json_report(data, write_ok) ==
  /\ json_report' = <<JsonReport(data)>>
  /\ written' = IF write_ok THEN written \cup {"json"} ELSE written
  /\ console' = console \cup
       {IF write_ok THEN "JSON report saved" ELSE "Error saving JSON report"}

----------------------------------------------------------------------------
(* The run of a script: main() of either file, from the token request to   *)
(* the report. load_config has succeeded.                                  *)

Init ==
  /\ prog \in Programs
  /\ pc = "auth"
  /\ exit_code = -1
  /\ access_token = None
  /\ http = <<>>
  /\ returned = Returned("", None, <<>>)
  /\ ncalls = 0
  /\ systems = <<>>
  /\ idx = 0
  /\ os_groups = EmptyDict
  /\ systems_with_advisories = <<>>
  /\ console = {}
  /\ written = {}
  /\ summary = EmptyDict
  /\ pdf_stats = <<>>
  /\ json_report = <<>>

\* A caller that goes on without a token.
NotToken_never(token) == FALSE

\* `if not token:` after the initial refresh
NotToken(token) == ~Truthy(token)

\* token = api.get_oauth_token(); if not token: sys.exit(1)
Authenticate ==
  /\ pc = "auth"
  /\ \E resp \in TokenResponses :
       /\ get_oauth_token(resp)
       /\ IF NotToken(returned'.token)
            THEN /\ pc' = "exit"
                 /\ exit_code' = 1
                 /\ console' = console \cup {"Failed to get OAuth token"}
            ELSE /\ pc' = "list"
                 /\ exit_code' = exit_code
                 /\ console' = console \cup {"Token refreshed successfully"}
  /\ UNCHANGED <<prog, ncalls, systems, idx, os_groups, systems_with_advisories,
                 written, summary, pdf_stats, json_report>>

\* systems = api.get_patch_systems(). With no systems, get_system_status_data
\* returns {} to its main, and redhat_patch_api's main returns [] to __main__.
ListSystems ==
  /\ pc = "list"
  /\ \E resp \in InventoryResponses :
       /\ get_patch_systems(resp)
       /\ systems' = returned'.list
  /\ IF systems' = <<>>
       THEN /\ idx' = idx
            /\ pc' = "report"
            /\ console' = console \cup {"No systems data retrieved"}
       ELSE /\ idx' = 1
            /\ pc' = "loop"
            /\ console' = console \cup {"Successfully retrieved systems"}
  /\ UNCHANGED <<prog, exit_code, ncalls, os_groups, systems_with_advisories, written,
                 summary, pdf_stats, json_report>>

\* One iteration of `for system in systems`: the advisory fetch, the record,
\* and its place in os_groups or systems_with_advisories.
ProcessSystem ==
  /\ pc = "loop"
  /\ idx \in 1..Len(systems)
  /\ \E resp \in AdvisoryResponses :
       get_system_advisories(SystemId(systems[idx]), resp)
  /\ IF prog = "status"
       THEN /\ os_groups' = GroupAppend(os_groups, OsVersion(systems[idx]),
                                        SystemData(systems[idx], returned'.list))
            /\ UNCHANGED systems_with_advisories
       ELSE /\ systems_with_advisories' =
                 Append(systems_with_advisories,
                        SystemAdvisories(systems[idx], returned'.list))
            /\ UNCHANGED os_groups
  /\ idx' = idx + 1
  /\ pc' = IF idx = Len(systems) THEN "report" ELSE "loop"
  /\ UNCHANGED <<prog, exit_code, ncalls, systems, console, written, summary,
                 pdf_stats, json_report>>

\* patch_system_status.main after get_system_status_data returned os_groups:
\* exit(1) on an empty dict, else the console summary and generate_pdf_report.
ReportStatus ==
  /\ pc = "report"
  /\ prog = "status"
  /\ IF os_groups = EmptyDict
       THEN /\ console' = console \cup {"No system data available to generate report"}
            /\ pc' = "exit"
            /\ exit_code' = 1
            /\ UNCHANGED <<summary, pdf_stats, written>>
       ELSE /\ summary' = GroupSummary(os_groups)
            /\ \E build_ok \in BOOLEAN : generate_pdf_report(os_groups, build_ok)
            /\ pc' = "done"
            /\ exit_code' = 0
  /\ UNCHANGED <<prog, access_token, http, returned, ncalls, systems, idx, os_groups,
                 systems_with_advisories, json_report>>

\* redhat_patch_api's __main__ after main(): print_advisory_report(systems_array)
PrintAdvisoryReport ==
  /\ pc = "report"
  /\ prog = "api"
  /\ console' = console \cup {"RED HAT PATCH ADVISORY REPORT"}
  /\ pc' = "json"
  /\ UNCHANGED <<prog, exit_code, access_token, http, returned, ncalls, systems, idx,
                 os_groups, systems_with_advisories, written, summary, pdf_stats,
                 json_report>>

\* redhat_patch_api's __main__: generate_json_report(systems_array), the end
WriteJsonReport ==
  /\ pc = "json"
  /\ \E write_ok \in BOOLEAN :
       generate_json_report(systems_with_advisories, write_ok)
  /\ pc' = "done"
  /\ exit_code' = 0
  /\ UNCHANGED <<prog, access_token, http, returned, ncalls, systems, idx, os_groups,
                 systems_with_advisories, summary, pdf_stats>>

Next ==
  \/ Authenticate
  \/ ListSystems
  \/ ProcessSystem
  \/ ReportStatus
  \/ PrintAdvisoryReport
  \/ WriteJsonReport

Spec == Init /\ [][Next]_vars

----------------------------------------------------------------------------
(* The RedHatPatchAPI object on its own: its three methods called in any   *)
(* order, as a caller other than the two mains may do.                     *)

DriverTokenResponses ==
  {TransportError, HttpError}
    \cup { Response("ok", t, FALSE, <<>>) : t \in Tokens \cup {Missing} }

DriverInventoryResponses ==
  {TransportError, HttpError,
   Response("ok", Missing, TRUE, <<[id |-> "a", display_name |-> "Host1", os |-> "RHEL 8"]>>)}

DriverAdvisoryResponses ==
  {TransportError, Response("ok", Missing, TRUE, RawAdvisoryList(1))}

InitAPI ==
  /\ prog \in Programs
  /\ pc = "object"
  /\ exit_code = -1
  /\ access_token = None
  /\ http = <<>>
  /\ returned = Returned("", None, <<>>)
  /\ ncalls = 0
  /\ systems = <<>>
  /\ idx = 0
  /\ os_groups = EmptyDict
  /\ systems_with_advisories = <<>>
  /\ console = {}
  /\ written = {}
  /\ summary = EmptyDict
  /\ pdf_stats = <<>>
  /\ json_report = <<>>

CallGetOAuthToken ==
  /\ pc = "object"
  /\ ncalls < MaxCalls
  /\ \E resp \in DriverTokenResponses : get_oauth_token(resp)
  /\ ncalls' = ncalls + 1
  /\ UNCHANGED <<prog, pc, exit_code, systems, idx, os_groups, systems_with_advisories,
                 console, written, summary, pdf_stats, json_report>>

CallGetPatchSystems ==
  /\ pc = "object"
  /\ ncalls < MaxCalls
  /\ \E resp \in DriverInventoryResponses : get_patch_systems(resp)
  /\ ncalls' = ncalls + 1
  /\ UNCHANGED <<prog, pc, exit_code, systems, idx, os_groups, systems_with_advisories,
                 console, written, summary, pdf_stats, json_report>>

CallGetSystemAdvisories ==
  /\ pc = "object"
  /\ ncalls < MaxCalls
  /\ \E resp \in DriverAdvisoryResponses : get_system_advisories("a", resp)
  /\ ncalls' = ncalls + 1
  /\ UNCHANGED <<prog, pc, exit_code, systems, idx, os_groups, systems_with_advisories,
                 console, written, summary, pdf_stats, json_report>>

NextAPI ==
  \/ CallGetOAuthToken
  \/ CallGetPatchSystems
  \/ CallGetSystemAdvisories

SpecAPI == InitAPI /\ [][NextAPI]_vars

----------------------------------------------------------------------------
(* The statistics on their own: generate_pdf_report, and main's summary,   *)
(* applied to any dict of groups.                                          *)

StatRecords(key) ==
  { [system_id |-> "a", display_name |-> "Host1", os_version |-> key,
     has_installable_advisories |-> n > 0, advisory_count |-> n] : n \in 0..1 }

GroupDicts ==
  UNION { { d \in [keys -> UNION { SeqsUpTo(StatRecords(k), MaxGroupLen) : k \in keys }] :
              \A k \in keys : d[k] \in SeqsUpTo(StatRecords(k), MaxGroupLen) }
          : keys \in SUBSET {"RHEL 8", "rhel 8"} }

InitStats ==
  /\ prog = "status"
  /\ pc \in {"pdf_call", "report"}
  /\ os_groups \in GroupDicts
  /\ exit_code = -1
  /\ access_token = None
  /\ http = <<>>
  /\ returned = Returned("", None, <<>>)
  /\ ncalls = 0
  /\ systems = <<>>
  /\ idx = 0
  /\ systems_with_advisories = <<>>
  /\ console = {}
  /\ written = {}
  /\ summary = EmptyDict
  /\ pdf_stats = <<>>
  /\ json_report = <<>>

CallGeneratePdfReport ==
  /\ pc = "pdf_call"
  /\ \E build_ok \in BOOLEAN : generate_pdf_report(os_groups, build_ok)
  /\ pc' = "done"
  /\ UNCHANGED <<prog, exit_code, access_token, http, returned, ncalls, systems, idx,
                 os_groups, systems_with_advisories, summary, json_report>>

NextStats ==
  \/ CallGeneratePdfReport
  \/ ReportStatus

SpecStats == InitStats /\ [][NextStats]_vars

----------------------------------------------------------------------------
(* Properties. What the service answered is read off the http log, with    *)
(* the defaults written out here rather than taken from the operators      *)
(* above.                                                                  *)

\* The token a token response yields: none on an error or without the field.
Yielded(resp) ==
  IF resp.status # "ok" \/ resp.access_token = Missing THEN None ELSE resp.access_token

LastRequest(log) == log[Len(log)]

\* The step is a call of get_oauth_token.
IsRefreshStep ==
  /\ Len(http') = Len(http) + 1
  /\ LastRequest(http').kind = "token"

\* C1: a get_oauth_token call that does not succeed (transport error, error
\* status, or a body without access_token) returns None and leaves the held
\* access_token as it was before the call.
C1_FailedRefreshKeepsToken ==
  [][ (IsRefreshStep /\ Yielded(LastRequest(http').resp) = None)
        => (returned'.token = None /\ access_token' = access_token) ]_vars

\* The step is a call of one of the two fetch methods by the driver.
IsFetchCall ==
  /\ ncalls' = ncalls + 1
  /\ returned'.op \in {"get_patch_systems", "get_system_advisories"}

\* C5: with no access_token held, get_patch_systems and get_system_advisories
\* issue no HTTP request, return an empty list and leave the token unchanged.
C5_NoTokenFailsFast ==
  [][ (IsFetchCall /\ access_token = None)
        => (http' = http /\ returned'.list = <<>> /\ access_token' = access_token) ]_vars

\* C5 witness: a fetch was called with no token held, after an earlier refresh
\* had obtained one.
C5_Witness ==
  /\ pc = "object"
  /\ returned.op = "get_system_advisories"
  /\ returned.list = <<>>
  /\ access_token = None
  /\ Len(http) = 2
  /\ Yielded(http[1].resp) = "tok1"

\* C6: when the initial get_oauth_token yields no token, the process exits
\* with status 1 and the token request stays the only request of the run.
C6_AuthFailureIsFatal ==
  (Len(http) >= 1 /\ ~Truthy(Yielded(http[1].resp)))
    => (pc = "exit" /\ exit_code = 1 /\ Len(http) = 1 /\ written = {})

\* C6 witness: redhat_patch_api exited after a 2xx token response that had no
\* access_token field.
C6_Witness ==
  /\ prog = "api"
  /\ pc = "exit"
  /\ Len(http) = 1
  /\ http[1].resp.status = "ok"
  /\ http[1].resp.access_token = Missing

\* C7: when the inventory request fails, no advisory request is issued, no
\* report is rendered or written, and the run ends with a message.
C7_InventoryFailureHalts ==
  (Len(http) >= 2 /\ http[2].kind = "systems" /\ http[2].resp.status # "ok")
    => /\ Len(http) = 2
       /\ written = {}
       /\ pdf_stats = <<>>
       /\ json_report = <<>>
       /\ "No systems data retrieved" \in console


\* The inventory the service listed, and the entry's fields after defaults.
Listed == IF http[2].resp.status = "ok" /\ http[2].resp.has_data THEN http[2].resp.data ELSE <<>>
IdOf(i) == IF Listed[i].id = Missing THEN "No ID" ELSE Listed[i].id
NameOf(i) == IF Listed[i].display_name = Missing THEN "Unknown" ELSE Listed[i].display_name
KeyOf(i) == IF Listed[i].os = Missing THEN "Unknown OS" ELSE Listed[i].os

\* The advisory request of the i-th entry, and the advisory list it carried
\* (none when it failed).
AdvisoryRequest(i) == http[2 + i]
FetchFailed(i) == AdvisoryRequest(i).resp.status # "ok"
Body(i) == IF AdvisoryRequest(i).resp.has_data THEN AdvisoryRequest(i).resp.data ELSE <<>>

\* The place of the i-th entry's record: in the group of its os string, after
\* the records of the earlier entries with that string.
Rank(i) == Cardinality({j \in 1..i : KeyOf(j) = KeyOf(i)})
HasRecord(groups, i) == KeyOf(i) \in DOMAIN groups /\ Rank(i) <= Len(groups[KeyOf(i)])
RecordOf(groups, i) == groups[KeyOf(i)][Rank(i)]

\* get_system_status_data is past its inventory request with systems to process.
Aggregating == prog = "status" /\ pc \in {"loop", "report", "done"} /\ Len(http) >= 2
Processed == 1..(idx - 1)

\* C2: whichever advisory requests fail, the loop goes through the whole
\* inventory; a failing system gets advisory_count 0 and no flag, and every
\* other system gets the record its own response gives.
C2_PartialFailureIsolated ==
  (Aggregating /\ Listed # <<>>) =>
    /\ pc # "loop" => idx = Len(Listed) + 1
    /\ \A i \in Processed :
         /\ HasRecord(os_groups, i)
         /\ RecordOf(os_groups, i) =
              [system_id |-> IdOf(i),
               display_name |-> NameOf(i),
               os_version |-> KeyOf(i),
               has_installable_advisories |-> (~FetchFailed(i) /\ Len(Body(i)) > 0),
               advisory_count |-> IF FetchFailed(i) THEN 0 ELSE Len(Body(i))]

\* C2 witness: the first request failed with a body, the second succeeded
\* with advisories, and the run finished.
C2_Witness ==
  /\ prog = "status"
  /\ pc = "done"
  /\ Len(Listed) = 2
  /\ FetchFailed(1) /\ Body(1) # <<>>
  /\ ~FetchFailed(2) /\ Len(Body(2)) = 2
  /\ RecordOf(os_groups, 2).advisory_count = 2

GroupSlots(groups) == UNION { { <<k, n>> : n \in 1..Len(groups[k]) } : k \in DOMAIN groups }

\* C3: for an inventory response of N entries the returned groups hold N
\* records in all, the i-th entry's own record among them, none twice.
C3_OneRecordPerEntry ==
  (prog = "status" /\ pc \in {"report", "done", "exit"} /\ Len(http) >= 2
     /\ http[2].resp.status = "ok") =>
    /\ Cardinality(GroupSlots(os_groups)) = Len(Listed)
    /\ \A i \in 1..Len(Listed) :
         /\ HasRecord(os_groups, i)
         /\ RecordOf(os_groups, i).system_id = IdOf(i)
         /\ RecordOf(os_groups, i).display_name = NameOf(i)

\* C3 witness: two entries with the same id, name and os, both recorded.
C3_Witness ==
  /\ prog = "status"
  /\ pc = "done"
  /\ Len(Listed) = 2
  /\ Listed[1] = Listed[2]
  /\ Len(os_groups["RHEL 8"]) = 2


\* The step is one iteration of get_system_status_data's loop.
IsAggregationStep == prog = "status" /\ pc = "loop" /\ idx' = idx + 1

\* C4: the record built in an iteration has advisory_count equal to the
\* length of the list get_system_advisories returned in that iteration, its
\* flag is set exactly when that count is positive, and the records built
\* before it stay as they were.
C4_CountMatchesFetch ==
  [][ IsAggregationStep =>
        /\ returned'.op = "get_system_advisories"
        /\ HasRecord(os_groups', idx)
        /\ RecordOf(os_groups', idx).advisory_count = Len(returned'.list)
        /\ \A i \in 1..idx :
             /\ RecordOf(os_groups', i).has_installable_advisories
                  <=> (RecordOf(os_groups', i).advisory_count > 0)
             /\ i < idx => RecordOf(os_groups', i) = RecordOf(os_groups, i) ]_vars

\* C4 witness: two iterations done, one fetch returned nothing and the other
\* returned advisories.
C4_Witness ==
  /\ prog = "status"
  /\ idx = 3
  /\ returned.op = "get_system_advisories"
  /\ Len(returned.list) = 2
  /\ RecordOf(os_groups, 1).advisory_count = 0
  /\ ~RecordOf(os_groups, 1).has_installable_advisories
  /\ RecordOf(os_groups, 2).has_installable_advisories

\* C8: the keys are the os strings of the entries processed, as they are
\* ("Unknown OS" for an entry without one); the group of key k holds as many
\* records as entries have the os string k, and each has os_version = k.
C8_GroupingIsExactMatch ==
  Aggregating =>
    /\ DOMAIN os_groups = { KeyOf(i) : i \in Processed }
    /\ \A k \in DOMAIN os_groups :
         /\ Len(os_groups[k]) = Cardinality({ i \in Processed : KeyOf(i) = k })
         /\ \A n \in 1..Len(os_groups[k]) : os_groups[k][n].os_version = k
    /\ \A i \in Processed :
         Listed[i].os = Missing => RecordOf(os_groups, i).os_version = "Unknown OS"

\* C8 witness: two spellings of one OS that differ in case made two groups.
C8_Witness ==
  /\ prog = "status"
  /\ pc = "done"
  /\ DOMAIN os_groups = {"RHEL 8", "rhel 8"}
  /\ Len(os_groups["RHEL 8"]) = 1
  /\ Len(os_groups["rhel 8"]) = 1

\* C10: after a successful initial refresh the requests of a run are the
\* token request, one inventory request, then one advisory request per
\* inventory entry in inventory order, each for that entry's id and each
\* carrying the token of the initial refresh, which stays the held token;
\* a finished run has issued exactly N advisory requests.
C10_SequentialFetches ==
  (Len(http) >= 1 /\ Truthy(Yielded(http[1].resp))) =>
    /\ http[1].kind = "token"
    /\ access_token = Yielded(http[1].resp)
    /\ Len(http) >= 2 =>
         /\ http[2].kind = "systems"
         /\ Len(http) <= 2 + Len(Listed)
         /\ pc \in {"report", "json", "done", "exit"} => Len(http) = 2 + Len(Listed)
         /\ pc = "loop" => Len(http) = 1 + idx
    /\ \A n \in 2..Len(http) : http[n].bearer = Yielded(http[1].resp)
    /\ \A n \in 3..Len(http) :
         /\ http[n].kind = "advisories"
         /\ http[n].id = IdOf(n - 2)

\* C10 witness: a finished run over two entries, one of them without an id,
\* whose first advisory request failed.
C10_Witness ==
  /\ pc = "done"
  /\ Len(http) = 4
  /\ Len(Listed) = 2
  /\ FetchFailed(1)
  /\ Listed[2].id = Missing
  /\ http[4].id = "No ID"
  /\ http[4].bearer = "tok2"


\* The percentage pct has the value n / d * 100 (d > 0), or 0.
IsPercentOf(pct, n, d) == pct.den > 0 /\ pct.num * d = n * 100 * pct.den
IsZeroPercent(pct) == pct.den > 0 /\ pct.num = 0

Flagged(data) == { s \in GroupSlots(data) : data[s[1]][s[2]].has_installable_advisories }
FlaggedIn(group) == { n \in 1..Len(group) : group[n].has_installable_advisories }

OverallStatsOk(stats, data) ==
  /\ stats.total_systems = Cardinality(GroupSlots(data))
  /\ stats.total_with_advisories = Cardinality(Flagged(data))
  /\ stats.total_with_advisories =
       SumOver([k \in DOMAIN stats.groups |-> stats.groups[k].with_advisories],
               DOMAIN stats.groups)
  /\ IF Cardinality(GroupSlots(data)) = 0
       THEN IsZeroPercent(stats.overall_percentage)
       ELSE IsPercentOf(stats.overall_percentage,
                        Cardinality(Flagged(data)), Cardinality(GroupSlots(data)))

GroupStatsOk(groups, data) ==
  /\ DOMAIN groups = DOMAIN data
  /\ \A k \in DOMAIN data :
       /\ groups[k].total_in_group = Len(data[k])
       /\ groups[k].with_advisories = Cardinality(FlaggedIn(data[k]))
       /\ IF Len(data[k]) = 0
            THEN IsZeroPercent(groups[k].percentage)
            ELSE IsPercentOf(groups[k].percentage,
                             Cardinality(FlaggedIn(data[k])), Len(data[k]))

\* C9: the overall percentage is 0 for no systems and otherwise (flagged
\* records / all records) x 100; the overall flagged count is the sum of the
\* groups' flagged counts; each group's percentage, in the PDF and in the
\* console summary, is computed in the same way over the group's records.
C9_Percentages ==
  /\ pdf_stats # <<>> =>
       /\ OverallStatsOk(pdf_stats[1], os_groups)
       /\ GroupStatsOk(pdf_stats[1].groups, os_groups)
  /\ summary # EmptyDict => GroupStatsOk(summary, os_groups)

\* C9 witness: a report over an empty group and a group of two records, one
\* of them flagged: 50 percent overall, 0 for the empty group.
C9_Witness ==
  /\ pc = "done"
  /\ pdf_stats # <<>>
  /\ summary # EmptyDict
  /\ DOMAIN os_groups = {"RHEL 8", "rhel 8"}
  /\ os_groups["RHEL 8"] = <<>>
  /\ Len(os_groups["rhel 8"]) = 2
  /\ pdf_stats[1].total_with_advisories = 1
  /\ pdf_stats[1].overall_percentage = [num |-> 100, den |-> 2]
  /\ pdf_stats[1].groups["RHEL 8"].percentage = [num |-> 0, den |-> 1]


\* The input systems with a given display name, and the last of them.
NamedAs(data, name) == { i \in 1..Len(data) : data[i].display_name = name }
LastNamed(data, name) ==
  CHOOSE i \in NamedAs(data, name) : \A j \in NamedAs(data, name) : j <= i

\* C11: the JSON report has one entry per distinct display_name of the input
\* list; the entry of a name carries the system_id and the advisories of the
\* last input system with that name, and its advisory_count is the length of
\* its advisories array.
C11_JsonReportLastWins ==
  json_report # <<>> =>
    /\ DOMAIN json_report[1] =
         { systems_with_advisories[i].display_name : i \in 1..Len(systems_with_advisories) }
    /\ \A name \in DOMAIN json_report[1] :
         LET entry == json_report[1][name]
             last == systems_with_advisories[LastNamed(systems_with_advisories, name)]
         IN /\ entry.system_id = last.system_id
            /\ entry.advisory_count = Len(last.advisories)
            /\ entry.advisory_count = Len(entry.advisories)
            /\ \A k \in 1..Len(last.advisories) :
                 /\ entry.advisories[k].advisory_id = last.advisories[k].id
                 /\ entry.advisories[k].synopsis = last.advisories[k].synopsis

\* C11 witness: two systems named Host1 with different ids and advisory
\* lists gave a report of one entry, that of the second system.
C11_Witness ==
  /\ pc = "done"
  /\ Len(systems_with_advisories) = 2
  /\ systems_with_advisories[1].display_name = "Host1"
  /\ systems_with_advisories[2].display_name = "Host1"
  /\ systems_with_advisories[1].system_id = "a"
  /\ systems_with_advisories[2].system_id = "b"
  /\ Len(systems_with_advisories[1].advisories) = 2
  /\ Len(systems_with_advisories[2].advisories) = 1
  /\ DOMAIN json_report[1] = {"Host1"}
  /\ json_report[1]["Host1"].system_id = "b"
  /\ json_report[1]["Host1"].advisory_count = 1

====
